---------------------------- MODULE Spec2Model ----------------------------
(***************************************************************************)
(* Model of the web content extractor (streamlit.py, streamlitV2.py,       *)
(* streamlitV3.py): the boilerplate stripper clean_text, the remote        *)
(* cleanup call clean_with_genai, link discovery find_linked_pages, the    *)
(* page pipelines extract_content / extract_content_with_agent and the     *)
(* button handler of main with its batch of concurrently awaited pages.    *)
(*                                                                         *)
(* A Python str is modelled as a sequence of tokens; a token is a TLA+     *)
(* string standing for one character, or for a run of characters that no   *)
(* operation of the program looks inside.  Concatenation and f-strings     *)
(* are \o, len() is Len.                                                   *)
(***************************************************************************)
EXTENDS Integers, Sequences, FiniteSets, TLC

VARIABLES
    \* clean_text applied once and twice (SpecCleanText)
    ct_pc, ct_text, ct_once, ct_twice,
    \* one call of find_linked_pages (SpecLinks)
    fl_pc, fl_soup, fl_url, fl_max_pages, fl_nav_links, fl_out,
    \* the application (Spec): which of the three programs runs, where its
    \* button handler stands, the URL it works on, the labels and tasks of
    \* the batch, the results mapping and what the page shows
    variant, phase, url, page_texts, tasks, all_pages_info, ui,
    \* whether the mapping of the previous click held several entries when
    \* this click began (history, kept for the claims on successive requests)
    previous_several,
    \* the positions of the tasks of the batch in the order in which their
    \* pipelines returned (history, kept for the claims on completion order)
    finished,
    \* one call of find_navigation_menu_items (SpecMenu): the item texts the
    \* menu agent found, the shape it reports them in, and the list returned
    mn_pc, mn_items, mn_shape, mn_out

ctVars == <<ct_pc, ct_text, ct_once, ct_twice>>
flVars == <<fl_pc, fl_soup, fl_url, fl_max_pages, fl_nav_links, fl_out>>
appVars == <<variant, phase, url, page_texts, tasks, all_pages_info, ui, previous_several,
            finished>>
mnVars == <<mn_pc, mn_items, mn_shape, mn_out>>
vars == <<ctVars, flVars, appVars, mnVars>>

---------------------------------------------------------------------------
(* Bounds of the model *)

\* longest raw text handed to clean_text in SpecCleanText
MaxTextLen == 5

\* most anchors inside one element of a page in SpecLinks
MaxAnchors == 3

\* most item texts the menu agent reports in SpecMenu
MaxItems == 3

\* largest cap max_pages handed to find_linked_pages in SpecLinks
MaxCap == 3

---------------------------------------------------------------------------
(* Python str helpers *)

\* characters matched by \s
Whitespace == {" ", "\n", "\t"}

\* characters matched by \w that the model uses
WordChars ==
    {"a", "b", "c", "d", "e", "f", "g", "h", "i", "j", "k", "l", "m", "n", "o", "p",
     "q", "r", "s", "t", "u", "v", "w", "x", "y", "z",
     "A", "B", "C", "D", "E", "F", "G", "H", "I", "J", "K", "L", "M", "N", "O", "P",
     "Q", "R", "S", "T", "U", "V", "W", "X", "Y", "Z",
     "0", "1", "2", "3", "4", "5", "6", "7", "8", "9", "_"}

\* the literal punctuation of the class [^\w\s.,!?-]
KeptPunctuation == {".", ",", "!", "?", "-"}

IsSpace(c) == c \in Whitespace

RECURSIVE LStrip(_)
LStrip(s) == IF s # <<>> /\ IsSpace(Head(s)) THEN LStrip(Tail(s)) ELSE s

RECURSIVE RStrip(_)
RStrip(s) ==
    IF s # <<>> /\ IsSpace(s[Len(s)]) THEN RStrip(SubSeq(s, 1, Len(s) - 1)) ELSE s

\* str.strip()
Strip(s) == RStrip(LStrip(s))

\* str.split(sep): the pieces between the occurrences of the character sep
RECURSIVE SplitAcc(_, _, _)
SplitAcc(s, sep, cur) ==
    IF s = <<>> THEN <<cur>>
    ELSE IF Head(s) = sep THEN <<cur>> \o SplitAcc(Tail(s), sep, <<>>)
    ELSE SplitAcc(Tail(s), sep, Append(cur, Head(s)))

Split(s, sep) == SplitAcc(s, sep, <<>>)

\* sep.join(parts)
RECURSIVE Join(_, _)
Join(parts, sep) ==
    IF parts = <<>> THEN <<>>
    ELSE IF Len(parts) = 1 THEN parts[1]
    ELSE parts[1] \o <<sep>> \o Join(Tail(parts), sep)

---------------------------------------------------------------------------
(* clean_text *)

\* re.sub(r'\s+', ' ', text)
RECURSIVE CollapseWhitespace(_)
CollapseWhitespace(s) ==
    IF s = <<>> THEN <<>>
    ELSE IF IsSpace(Head(s)) THEN <<" ">> \o CollapseWhitespace(LStrip(s))
    ELSE <<Head(s)>> \o CollapseWhitespace(Tail(s))

KeptChar(c) == c \in WordChars \cup Whitespace \cup KeptPunctuation

\* a variant that deletes no character
DropNothing(s) == s

\* re.sub(r'[^\w\s.,!?-]', '', text)
DropDisallowed(s) == SelectSeq(s, KeptChar)

NonBlank(line) == Strip(line) # <<>>

RECURSIVE StripEach(_)
StripEach(lines) ==
    IF lines = <<>> THEN <<>> ELSE <<Strip(Head(lines))>> \o StripEach(Tail(lines))

\* '\n'.join(line.strip() for line in text.split('\n') if line.strip())
DropBlankLines(s) == Join(StripEach(SelectSeq(Split(s, "\n"), NonBlank)), "\n")

clean_text(text) == Strip(DropBlankLines(DropDisallowed(CollapseWhitespace(text))))

---------------------------------------------------------------------------
(* SpecCleanText: clean_text on every raw text up to MaxTextLen *)

CleanAlphabet == {"a", ",", " ", "\n", "$"}

RECURSIVE SeqsUpTo(_, _)
SeqsUpTo(S, n) ==
    IF n = 0 THEN {<<>>}
    ELSE LET shorter == SeqsUpTo(S, n - 1)
         IN  shorter \cup {Append(s, c) : s \in {t \in shorter : Len(t) = n - 1}, c \in S}

\* a longer raw text: a greeting, a run of spaces, a run of newlines and an
\* advertisement line ending in disallowed symbols
GreetingText ==
    <<"H", "e", "l", "l", "o", ",", " ", " ", " ", "W", "o", "r", "l", "d",
      "!", "!", "\n", "\n", "\n", "A", "d", "s", " ", "h", "e", "r", "e",
      "$", "$", "$">>

LongInputs == {GreetingText, <<" ", "\n">> \o GreetingText \o <<"\n", " ">>}

CleanInputs == SeqsUpTo(CleanAlphabet, MaxTextLen) \cup LongInputs

CtIdle == ct_pc = "idle" /\ ct_text = <<>> /\ ct_once = <<>> /\ ct_twice = <<>>

FlIdle ==
    /\ fl_pc = "idle"
    /\ fl_soup = [navs |-> <<>>, header |-> <<>>, footer |-> <<>>]
    /\ fl_url = <<>>
    /\ fl_max_pages = 0
    /\ fl_nav_links = <<>>
    /\ fl_out = <<>>

MnIdle == mn_pc = "idle" /\ mn_items = <<>> /\ mn_shape = "none" /\ mn_out = <<>>

NoUi == [kind |-> "none", text |-> <<>>]

AppIdle ==
    /\ variant = "none"
    /\ phase = "off"
    /\ url = <<>>
    /\ page_texts = <<>>
    /\ tasks = <<>>
    /\ all_pages_info = <<>>
    /\ ui = NoUi
    /\ previous_several = FALSE
    /\ finished = <<>>

InitCleanText ==
    /\ FlIdle
    /\ MnIdle
    /\ AppIdle
    /\ ct_pc = "start"
    /\ ct_text \in CleanInputs
    /\ ct_once = <<>>
    /\ ct_twice = <<>>

CleanOnce ==
    /\ ct_pc = "start"
    /\ ct_once' = clean_text(ct_text)
    /\ ct_pc' = "once"
    /\ UNCHANGED <<ct_text, ct_twice, flVars, appVars, mnVars>>

CleanTwice ==
    /\ ct_pc = "once"
    /\ ct_twice' = clean_text(ct_once)
    /\ ct_pc' = "twice"
    /\ UNCHANGED <<ct_text, ct_once, flVars, appVars, mnVars>>

NextCleanText == CleanOnce \/ CleanTwice

SpecCleanText == InitCleanText /\ [][NextCleanText]_vars

---------------------------------------------------------------------------
(* URLs: urlparse and urljoin on tokenised URL strings.  An absolute URL is
   <<scheme, "://", netloc>> followed by the path tokens ("/" and segment
   names) and an optional "#" fragment. *)

\* urlparse(u).scheme
UrlScheme(u) == IF Len(u) >= 2 /\ u[2] \in {"://", ":"} THEN u[1] ELSE ""

\* urlparse(u).netloc
UrlNetloc(u) == IF Len(u) >= 3 /\ u[2] = "://" THEN u[3] ELSE ""

UrlOrigin(u) == SubSeq(u, 1, 3)

RECURSIVE UpToFragment(_)
UpToFragment(s) ==
    IF s = <<>> \/ Head(s) = "#" THEN <<>> ELSE <<Head(s)>> \o UpToFragment(Tail(s))

\* urlparse(u).path of an absolute URL
UrlPath(u) == UpToFragment(SubSeq(u, 4, Len(u)))

\* the directory of a base path: everything up to its last "/"
RECURSIVE PathDir(_)
PathDir(path) ==
    IF path = <<>> THEN <<"/">>
    ELSE IF path[Len(path)] = "/" THEN path
    ELSE PathDir(SubSeq(path, 1, Len(path) - 1))

\* urljoin(base, href) for an absolute http(s) base
urljoin(base, href) ==
    IF href = <<>> THEN base
    ELSE IF UrlScheme(href) # "" /\ (UrlScheme(href) # UrlScheme(base) \/ UrlNetloc(href) # "")
        THEN href
    ELSE IF href[1] = "//" THEN <<UrlScheme(base), "://">> \o Tail(href)
    ELSE IF href[1] = "/" THEN UrlOrigin(base) \o href
    ELSE IF href[1] = "#" THEN UpToFragment(base) \o href
    ELSE UrlOrigin(base) \o PathDir(UrlPath(base)) \o href

---------------------------------------------------------------------------
(* find_linked_pages.  The parsed page (soup) is the anchors of its <nav>
   elements in document order, and of its first <header> and first <footer>
   (an absent element is the empty sequence of elements). *)

HasHref(a) == a.has_href

RECURSIVE LinkPairs(_)
LinkPairs(anchors) ==
    IF anchors = <<>> THEN <<>>
    ELSE <<[href |-> Head(anchors).href, text |-> Strip(Head(anchors).text)]>>
         \o LinkPairs(Tail(anchors))

\* [(a.get('href'), a.text.strip()) for a in element.find_all('a', href=True)]
AnchorsOf(element) == LinkPairs(SelectSeq(element, HasHref))

\* nav_links.extend(...) for every element of a find_all / find result
RECURSIVE ExtendFrom(_)
ExtendFrom(elements) ==
    IF elements = <<>> THEN <<>>
    ELSE AnchorsOf(Head(elements)) \o ExtendFrom(Tail(elements))

\* soup.find(tag): the first element or None
FindFirst(elements) == IF elements = <<>> THEN <<>> ELSE <<Head(elements)>>

\* a variant that searches header and footer whatever the navs gave
CollectNavLinksAlways(soup) ==
    ExtendFrom(soup.navs) \o ExtendFrom(FindFirst(soup.header))
                         \o ExtendFrom(FindFirst(soup.footer))

\* the candidate links: those of the <nav> elements, and of header and
\* footer if that left nav_links empty
CollectNavLinks(soup) ==
    LET from_navs == ExtendFrom(soup.navs)
    IN  IF from_navs = <<>>
        THEN ExtendFrom(FindFirst(soup.header)) \o ExtendFrom(FindFirst(soup.footer))
        ELSE from_navs

UrlsOf(processed_links) == {processed_links[i].url : i \in DOMAIN processed_links}

\* a variant that stops one link late
CapReachedLate(processed_links, max_pages) == Len(processed_links) > max_pages

\* the test that ends the for loop after an append
CapReached(processed_links, max_pages) == Len(processed_links) >= max_pages

\* a variant without the host test
AdmittedAnyHost(absolute_url, base_url, processed_links) ==
    absolute_url \notin UrlsOf(processed_links)

\* a variant without the duplicate test
AdmittedRepeated(absolute_url, base_url, processed_links) ==
    UrlNetloc(absolute_url) = UrlNetloc(base_url)

\* the test that admits a resolved link to processed_links
Admitted(absolute_url, base_url, processed_links) ==
    /\ UrlNetloc(absolute_url) = UrlNetloc(base_url)
    /\ absolute_url \notin UrlsOf(processed_links)

\* the for loop over nav_links, from candidate i on
RECURSIVE ProcessLinks(_, _, _, _, _)
ProcessLinks(nav_links, i, base_url, max_pages, processed_links) ==
    IF i > Len(nav_links) THEN processed_links
    ELSE LET absolute_url == urljoin(base_url, nav_links[i].href)
         IN  IF Admitted(absolute_url, base_url, processed_links)
             THEN LET appended == Append(processed_links,
                                         [url |-> absolute_url, text |-> nav_links[i].text])
                  IN  IF CapReached(appended, max_pages) THEN appended
                      ELSE ProcessLinks(nav_links, i + 1, base_url, max_pages, appended)
             ELSE ProcessLinks(nav_links, i + 1, base_url, max_pages, processed_links)

find_linked_pages(soup, base_url, max_pages) ==
    ProcessLinks(CollectNavLinks(soup), 1, base_url, max_pages, <<>>)

---------------------------------------------------------------------------
(* SpecLinks: one call of find_linked_pages on every page of LinkSoups *)

SiteUrl == <<"https", "://", "site.example">>

Anchor(href, text) == [has_href |-> TRUE, href |-> href, text |-> text]

AboutAnchor == Anchor(<<"/", "about">>, <<" ", "About", "\n">>)
AbsoluteAboutAnchor == Anchor(<<"https", "://", "site.example", "/", "about">>, <<"Info">>)
SchemeRelativeAnchor == Anchor(<<"//", "other.example", "/", "x">>, <<"Ext">>)
OtherHostAnchor == Anchor(<<"https", "://", "other.example", "/", "about">>, <<"About">>)
SelfAnchor == Anchor(<<>>, <<"Home">>)
RelativeAnchor == Anchor(<<"contact">>, <<>>)
NoHrefAnchor == [has_href |-> FALSE, href |-> <<>>, text |-> <<"Menu">>]

LinkAnchors ==
    {AboutAnchor, AbsoluteAboutAnchor, SchemeRelativeAnchor, OtherHostAnchor,
     SelfAnchor, RelativeAnchor, NoHrefAnchor}

\* the <nav> elements of a page: none, one, or two short ones
NavLists ==
    {<<>>} \cup {<<nav>> : nav \in SeqsUpTo(LinkAnchors, MaxAnchors)}
           \cup {<<n1, n2>> : n1 \in SeqsUpTo(LinkAnchors, 1), n2 \in SeqsUpTo(LinkAnchors, 1)}

FallbackAnchors == {AboutAnchor, OtherHostAnchor, NoHrefAnchor}

\* a <header> or <footer>: absent, or one element with at most one anchor
OptionalElement == {<<>>} \cup {<<e>> : e \in SeqsUpTo(FallbackAnchors, 1)}

LinkSoups ==
    {[navs |-> n, header |-> h, footer |-> f] :
        n \in NavLists, h \in OptionalElement, f \in OptionalElement}

InitLinks ==
    /\ CtIdle
    /\ AppIdle
    /\ MnIdle
    /\ fl_pc = "start"
    /\ fl_soup \in LinkSoups
    /\ fl_url = SiteUrl
    /\ fl_max_pages \in 0..MaxCap
    /\ fl_nav_links = <<>>
    /\ fl_out = <<>>

\* requests.get and raise_for_status succeed; the page is parsed and searched
FindLinkedPages ==
    /\ fl_pc = "start"
    /\ fl_nav_links' = CollectNavLinks(fl_soup)
    /\ fl_out' = find_linked_pages(fl_soup, fl_url, fl_max_pages)
    /\ fl_pc' = "done"
    /\ UNCHANGED <<fl_soup, fl_url, fl_max_pages, ctVars, appVars, mnVars>>

\* requests.get or raise_for_status raises: the except clause returns []
FindLinkedPagesFetchFails ==
    /\ fl_pc = "start"
    /\ fl_out' = <<>>
    /\ fl_pc' = "failed"
    /\ UNCHANGED <<fl_soup, fl_url, fl_max_pages, fl_nav_links, ctVars, appVars, mnVars>>

NextLinks == FindLinkedPages \/ FindLinkedPagesFetchFails

SpecLinks == InitLinks /\ [][NextLinks]_vars

---------------------------------------------------------------------------
(* clean_with_genai.  The remote call either returns a response or raises;
   an outcome is [kind |-> "ok", text |-> response.text] or
   [kind |-> "raise", exc |-> the exception class, msg |-> str(e)]. *)

MIN_CONTENT_LENGTH == 50

\* str.lower() on the tokens the model uses
Lower(token) ==
    IF token = "Provide The Actual Scraped Content"
    THEN "provide the actual scraped content" ELSE token

\* needle in text, for a needle that is one token
Contains(text, needle) == \E i \in DOMAIN text : text[i] = needle

\* needle in text.lower()
LowerContains(text, needle) == \E i \in DOMAIN text : Lower(text[i]) = needle

AsksForContent(response_text) ==
    LowerContains(response_text, "provide the actual scraped content")

ContentExtractionError ==
    <<"CONTENT EXTRACTION ERROR: ", "Failed to retrieve meaningful page content">>

\* "429" in error_message or "Resource has been exhausted" in error_message
IsRateLimit(error_message) ==
    Contains(error_message, "429") \/ Contains(error_message, "Resource has been exhausted")

CleaningRateLimit == <<"CLEANING ERROR: ", "API rate limit - please try again later.">>

\* f"CLEANING ERROR: {str(e)}"
CleaningError(msg) == <<"CLEANING ERROR: ">> \o msg

\* a variant without the rate-limit branch
CleaningFailurePlain(v, exc, msg) == CleaningError(msg)

\* the except clauses of clean_with_genai; only V3 has the ResourceExhausted one
CleaningFailure(v, exc, msg) ==
    IF v = "V3" /\ exc = "ResourceExhausted" /\ IsRateLimit(msg)
    THEN CleaningRateLimit
    ELSE CleaningError(msg)

\* the value clean_with_genai returns on a response
CleaningResponse(response_text) ==
    IF AsksForContent(response_text) THEN ContentExtractionError ELSE response_text

clean_with_genai(v, text, outcome) ==
    IF outcome.kind = "ok" THEN CleaningResponse(outcome.text)
    ELSE CleaningFailure(v, outcome.exc, outcome.msg)

\* st.warning is called in the rate-limit branch of V3
CleaningWarns(v, outcome) ==
    /\ v = "V3"
    /\ outcome.kind = "raise"
    /\ outcome.exc = "ResourceExhausted"
    /\ IsRateLimit(outcome.msg)

---------------------------------------------------------------------------
(* The inline filter of extract_content_with_agent (V2, V3):
   re.sub(r'^([marks].*|Extracted the .*|:)\s*$', '', text, flags=re.MULTILINE)
   followed by strip().  The marks are the characters of the class, named by
   their code points; "Extracted the " is one token. *)

TraceMarks == {"U+1F517", "U+1F5B1", "U+FE0F", "U+1F50D", "U+1F4C4"}

\* the length of the rest of the line that s starts
RECURSIVE LineLen(_)
LineLen(s) == IF s = <<>> \/ Head(s) = "\n" THEN 0 ELSE 1 + LineLen(Tail(s))

\* the length of the whitespace run that s starts
RECURSIVE SpaceRunLen(_)
SpaceRunLen(s) == IF s = <<>> \/ ~IsSpace(Head(s)) THEN 0 ELSE 1 + SpaceRunLen(Tail(s))

\* \s*$ after a body of b characters: how much whitespace the greedy \s*
\* keeps so that $ (end of text, or just before a newline) matches; -1 if
\* $ matches nowhere
TrailingSpace(s, b) ==
    LET rest == SubSeq(s, b + 1, Len(s))
        w == SpaceRunLen(rest)
        stops == {k \in 0..w : k = Len(rest) \/ (k < Len(rest) /\ rest[k + 1] = "\n")}
    IN  IF stops = {} THEN -1 ELSE CHOOSE k \in stops : \A m \in stops : m <= k

\* the length of the match of the pattern at a line start, 0 if none
TraceMatchLen(s) ==
    IF s = <<>> THEN 0
    ELSE LET b == IF Head(s) \in TraceMarks \/ Head(s) = "Extracted the "
                  THEN LineLen(s)
                  ELSE IF Head(s) = ":" THEN 1 ELSE 0
             t == IF b = 0 THEN -1 ELSE TrailingSpace(s, b)
         IN  IF t < 0 THEN 0 ELSE b + t

\* re.sub(pattern, '', s): at_start says whether s begins at a line start
RECURSIVE DropTraceLines(_, _)
DropTraceLines(s, at_start) ==
    IF s = <<>> THEN <<>>
    ELSE LET m == IF at_start THEN TraceMatchLen(s) ELSE 0
         IN  IF m > 0
             THEN DropTraceLines(SubSeq(s, m + 1, Len(s)), s[m] = "\n")
             ELSE <<Head(s)>> \o DropTraceLines(Tail(s), Head(s) = "\n")

initial_clean(full_text_result) == Strip(DropTraceLines(full_text_result, TRUE))

\* "\n".join(result) if isinstance(result, list) else result
FullTextResult(result) ==
    IF result.is_list THEN Join(result.parts, "\n") ELSE result.parts[1]

---------------------------------------------------------------------------
(* The page pipelines extract_content (V1) and extract_content_with_agent
   (V2, V3) and process_page, as what each step does to the record of its
   task.  log lists the steps the task has taken, in order. *)

NoOutcome == [kind |-> "none", text |-> <<>>, exc |-> "", msg |-> <<>>]
Responded(text) == [kind |-> "ok", text |-> text, exc |-> "", msg |-> <<>>]
Raised(exc, msg) == [kind |-> "raise", text |-> <<>>, exc |-> exc, msg |-> msg]

\* the coroutine of one page, created and not yet started
NewTask(page_url, has_menu_item, navigate_menu_item) ==
    [pc |-> "created", url |-> page_url,
     has_menu_item |-> has_menu_item, menu_item |-> navigate_menu_item,
     status_code |-> 0, doc |-> <<>>, caught |-> NoOutcome, fetched |-> <<>>, checked |-> <<>>,
     cleanup_arg |-> <<>>, cleanup |-> NoOutcome,
     success |-> FALSE, content |-> <<>>, title |-> <<>>, page_content |-> <<>>,
     log |-> <<>>, warned |-> FALSE]

\* a variant that also rejects a text of exactly the minimum length
TooShortInclusive(text) == Len(text) <= MIN_CONTENT_LENGTH

\* len(text) < MIN_CONTENT_LENGTH
TooShort(text) == Len(text) < MIN_CONTENT_LENGTH

InsufficientContent == <<"Error: ", "Insufficient content extracted">>

\* the exception classes derived from requests.RequestException
RequestExceptions == {"ConnectionError", "Timeout", "HTTPError"}

FetchError(msg) == <<"Error fetching the webpage: ">> \o msg

UnexpectedError(msg) == <<"Error: ">> \o msg

\* a variant in which the general except clause takes every exception
ExtractFailureGeneral(exc, msg) == UnexpectedError(msg)

\* the except clauses of extract_content
ExtractFailure(exc, msg) ==
    IF exc \in RequestExceptions THEN FetchError(msg) ELSE UnexpectedError(msg)

AgentRateLimit == <<"Error: ", "API rate limit - please try again later.">>

AgentError(msg) == <<"Error during agent-based extraction: ">> \o msg

\* the except clauses of extract_content_with_agent; only V3 has the
\* ResourceExhausted one
AgentFailure(v, exc, msg) ==
    IF v = "V3" /\ exc = "ResourceExhausted" /\ IsRateLimit(msg)
    THEN AgentRateLimit
    ELSE AgentError(msg)

\* str.strip('/')
RECURSIVE StripSlashes(_)
StripSlashes(path) ==
    IF path # <<>> /\ Head(path) = "/" THEN StripSlashes(Tail(path))
    ELSE IF path # <<>> /\ path[Len(path)] = "/"
         THEN StripSlashes(SubSeq(path, 1, Len(path) - 1))
    ELSE path

\* str.replace('/', ' - ')
ReplaceSlashes(path) == [k \in DOMAIN path |-> IF path[k] = "/" THEN " - " ELSE path[k]]

\* str(navigate_menu_item)
MenuItemText(t) == IF t.has_menu_item THEN t.menu_item ELSE <<"None">>

\* `if navigate_menu_item`
MenuItemGiven(t) == t.has_menu_item /\ t.menu_item # <<>>

\* the title process_page returns
PageTitle(v, t, success) ==
    LET path == StripSlashes(UrlPath(t.url))
        page_title == IF v = "V2" /\ MenuItemGiven(t) THEN t.menu_item
                      ELSE IF path = <<>> THEN <<"Page">>
                      ELSE ReplaceSlashes(path)
    IN  IF ~success
        THEN (IF v = "V2" /\ MenuItemGiven(t) THEN t.menu_item
              ELSE IF path = <<>> THEN <<"Error Page">>
              ELSE path)
        ELSE IF page_title = <<>> \/ page_title = <<"Page">> THEN t.url
        ELSE page_title

\* the content process_page returns
PageContent(v, t, success, content) ==
    IF success THEN content
    ELSE IF v = "V2"
         THEN <<"Error extracting content from ">> \o t.url \o <<" (Menu: ">>
              \o MenuItemText(t) \o <<"): ">> \o content
         ELSE <<"Error extracting content from ">> \o t.url \o <<": ">> \o content

\* the pipeline returns (success, content); in V2 and V3 process_page turns
\* that into (title, content) at once
Return(v, t, success, content) ==
    [t EXCEPT !.pc = "done", !.success = success, !.content = content,
              !.title = IF v = "V1" THEN <<>> ELSE PageTitle(v, t, success),
              !.page_content = IF v = "V1" THEN content
                               ELSE PageContent(v, t, success, content)]

Logged(t, steps) == [t EXCEPT !.log = @ \o steps]

\* the first part of a pipeline, up to its first await
Started(v, t) ==
    IF v = "V1" THEN Logged([t EXCEPT !.pc = "fetch"], <<"fetch">>)
    ELSE Logged([t EXCEPT !.pc = "agent"], <<"agent">>)

---------------------------------------------------------------------------
(* extract_content (V1).  The parsed document, after script, style, nav,
   footer and iframe are removed, is the sequence of its elements that some
   selector of content_selectors matches, each with the text get_text
   gives. *)

content_selectors ==
    <<"main", "article", ".content", "#content", ".post-content", ".entry-content", "body">>

\* soup.select_one(selector): the matching elements, first one first
SelectOne(doc, selector) == SelectSeq(doc, LAMBDA e : e.selector = selector)

\* a variant that takes the first element of the document, whatever its
\* selector
FirstInDocument(doc, k) ==
    IF doc = <<>> THEN [found |-> FALSE, text |-> <<>>]
    ELSE [found |-> TRUE, text |-> doc[1].text]

\* the for loop over content_selectors from selector k on: the text of the
\* first selector that matches, None (no element) if none does
RECURSIVE FirstMatch(_, _)
FirstMatch(doc, k) ==
    IF k > Len(content_selectors) THEN [found |-> FALSE, text |-> <<>>]
    ELSE LET content == SelectOne(doc, content_selectors[k])
         IN  IF content # <<>> THEN [found |-> TRUE, text |-> content[1].text]
             ELSE FirstMatch(doc, k + 1)

NoBodyMessage == <<"'NoneType' object has no attribute 'get_text'">>

\* main_content: the selected text, or soup.body's if that is empty; with
\* no body the attribute access raises
SelectMainContent(doc) ==
    LET first == FirstMatch(doc, 1)
        body == SelectOne(doc, "body")
    IN  IF first.found /\ first.text # <<>> THEN [ok |-> TRUE, text |-> first.text]
        ELSE IF body = <<>> THEN [ok |-> FALSE, text |-> NoBodyMessage]
        ELSE [ok |-> TRUE, text |-> body[1].text]

\* requests.get raised, or raise_for_status did
FetchRaised(v, t, exc, msg) ==
    Return(v, [t EXCEPT !.caught = Raised(exc, msg)], FALSE, ExtractFailure(exc, msg))

\* response.raise_for_status() raises HTTPError for the client error and
\* server error statuses, and for no other status
RaisesForStatus(status_code) == status_code \in 400..599

\* the message of that HTTPError
HTTPErrorMessage(response, page_url) ==
    <<ToString(response.status_code),
      IF response.status_code < 500 THEN " Client Error: " ELSE " Server Error: ",
      response.reason, " for url: ">> \o page_url

\* the response arrived: raise_for_status, then parse, select, strip, check
\* the length
FetchReturned(v, t, response) ==
    LET received == [t EXCEPT !.status_code = response.status_code, !.doc = response.doc]
        main_content == SelectMainContent(response.doc)
        cleaned_text == clean_text(main_content.text)
        stripped == [Logged(received, <<"parse", "clean_text", "length_check">>)
                        EXCEPT !.fetched = main_content.text, !.checked = cleaned_text]
    IN  IF RaisesForStatus(response.status_code)
        THEN FetchRaised(v, received, "HTTPError", HTTPErrorMessage(response, t.url))
        ELSE IF ~main_content.ok
        THEN Return(v, [Logged(received, <<"parse">>)
                           EXCEPT !.caught = Raised("AttributeError", main_content.text)],
                    FALSE, ExtractFailure("AttributeError", main_content.text))
        ELSE IF TooShort(cleaned_text) THEN Return(v, stripped, FALSE, InsufficientContent)
        ELSE [stripped EXCEPT !.pc = "cleanup", !.cleanup_arg = cleaned_text]

---------------------------------------------------------------------------
(* extract_content_with_agent (V2, V3) *)

\* how often a step was taken
Times(t, step) == Len(SelectSeq(t.log, LAMBDA s : s = step))

\* a variant that runs the agent a second time when its first run raised
AgentRaisedRetried(v, t, exc, msg) ==
    IF Times(t, "agent") < 2 THEN Logged([t EXCEPT !.pc = "agent"], <<"agent">>)
    ELSE Return(v, [t EXCEPT !.caught = Raised(exc, msg)], FALSE, AgentFailure(v, exc, msg))

\* Agent(...) or agent.run raised
AgentRaised(v, t, exc, msg) ==
    Return(v, [t EXCEPT !.caught = Raised(exc, msg),
                        !.warned = (AgentFailure(v, exc, msg) = AgentRateLimit)],
           FALSE, AgentFailure(v, exc, msg))

\* a variant that hands the unfiltered text to the cleanup step
AgentReturnedUnfiltered(v, t, result) ==
    LET full_text_result == FullTextResult(result)
        initial == initial_clean(full_text_result)
        stripped == [Logged(t, <<"initial_clean", "length_check">>)
                        EXCEPT !.fetched = full_text_result, !.checked = initial]
    IN  IF TooShort(initial) THEN Return(v, stripped, FALSE, InsufficientContent)
        ELSE [stripped EXCEPT !.pc = "cleanup", !.cleanup_arg = full_text_result]

\* agent.run returned: join the extracted content, filter it, check the length
AgentReturned(v, t, result) ==
    LET full_text_result == FullTextResult(result)
        initial == initial_clean(full_text_result)
        stripped == [Logged(t, <<"initial_clean", "length_check">>)
                        EXCEPT !.fetched = full_text_result, !.checked = initial]
    IN  IF TooShort(initial) THEN Return(v, stripped, FALSE, InsufficientContent)
        ELSE [stripped EXCEPT !.pc = "cleanup", !.cleanup_arg = initial]

\* a variant that reports a failure when the cleanup step returned an error
\* string
CleanupReturnedChecked(v, t, outcome) ==
    Return(v, [Logged(t, <<"clean_with_genai">>)
                  EXCEPT !.cleanup = outcome, !.warned = CleaningWarns(v, outcome)],
           outcome.kind = "ok" /\ ~AsksForContent(outcome.text),
           clean_with_genai(v, t.cleanup_arg, outcome))

\* final_clean = await clean_with_genai(text); return True, final_clean
CleanupReturned(v, t, outcome) ==
    Return(v, [Logged(t, <<"clean_with_genai">>)
                  EXCEPT !.cleanup = outcome, !.warned = CleaningWarns(v, outcome)],
           TRUE, clean_with_genai(v, t.cleanup_arg, outcome))

---------------------------------------------------------------------------
(* find_navigation_menu_items (V2).  The agent's extracted content is a list
   ([kind |-> "list"]: its elements are strings, iterated character by
   character, or lists of strings), a string ([kind |-> "str"]), something
   else, or the agent raised. *)

\* `for text in sublist`
Iterate(sublist) ==
    IF sublist.is_str THEN [k \in DOMAIN sublist.value |-> <<sublist.value[k]>>]
    ELSE sublist.value

\* [text.strip() for sublist in menu_items for text in sublist]
RECURSIVE AllTexts(_)
AllTexts(menu_items) ==
    IF menu_items = <<>> THEN <<>>
    ELSE StripEach(Iterate(Head(menu_items))) \o AllTexts(Tail(menu_items))

\* list(dict.fromkeys(items))
RECURSIVE Unique(_, _)
Unique(items, seen) ==
    IF items = <<>> THEN <<>>
    ELSE IF Head(items) \in seen THEN Unique(Tail(items), seen)
    ELSE <<Head(items)>> \o Unique(Tail(items), seen \cup {Head(items)})

find_navigation_menu_items(outcome) ==
    IF outcome.kind = "list" THEN Unique(AllTexts(outcome.list), {})
    ELSE IF outcome.kind = "str"
         THEN Unique(StripEach(SelectSeq(Split(Strip(outcome.str), "\n"), NonBlank)), {})
    ELSE <<>>

---------------------------------------------------------------------------
(* What the world outside the program may answer *)

Fill(n) == [k \in 1..n |-> "a"]

EnteredUrls == {<<>>, <<"site.example">>, SiteUrl}

\* the documents requests.get may bring (V1)
BodyOnlyDoc == <<[selector |-> "body", text |-> Fill(MIN_CONTENT_LENGTH)]>>
MainDoc ==
    <<[selector |-> "main", text |-> Fill(25) \o <<" ", "$", " ">> \o Fill(24)],
      [selector |-> "body",
       text |-> <<"m", "e", "n", "u", "\n">> \o Fill(25) \o <<" ", "$", " ">> \o Fill(24)]>>
ArticleDoc ==
    <<[selector |-> "article", text |-> Fill(MIN_CONTENT_LENGTH - 1) \o <<"$">>],
      [selector |-> "body", text |-> Fill(MIN_CONTENT_LENGTH - 1) \o <<"$">>]>>
EmptyMainDoc ==
    <<[selector |-> "main", text |-> <<>>],
      [selector |-> "body", text |-> Fill(MIN_CONTENT_LENGTH) \o <<"\n", "x">>]>>
NoBodyDoc == <<>>
\* an .entry-content block before an <article>, both inside <body>
EntryThenArticleDoc ==
    <<[selector |-> ".entry-content", text |-> <<"e">> \o Fill(MIN_CONTENT_LENGTH)],
      [selector |-> "article", text |-> <<"r">> \o Fill(MIN_CONTENT_LENGTH)],
      [selector |-> "body", text |-> <<"b">> \o Fill(MIN_CONTENT_LENGTH)]>>

Docs == {BodyOnlyDoc, MainDoc, ArticleDoc, EmptyMainDoc, NoBodyDoc, EntryThenArticleDoc}

Response(status_code, reason, doc) ==
    [status_code |-> status_code, reason |-> reason, doc |-> doc]

\* the responses requests.get may return once redirects are followed: a
\* page, a 300 that names no location, a 404 and a 503
Responses ==
    {Response(200, "OK", doc) : doc \in Docs}
    \cup {Response(300, "Multiple Choices", BodyOnlyDoc),
          Response(404, "Not Found", BodyOnlyDoc),
          Response(503, "Service Unavailable", NoBodyDoc)}

\* the exceptions requests.get itself may raise
FetchErrors ==
    {<<"ConnectionError", <<"Max retries exceeded with url">>>>,
     <<"Timeout", <<"Read timed out.">>>>}

\* what history.extracted_content() may hold (V2, V3)
ListResult(parts) == [is_list |-> TRUE, parts |-> parts]
StrResult(text) == [is_list |-> FALSE, parts |-> <<text>>]

AgentResults ==
    {ListResult(<<<<"U+1F517", " ", "a">>, Fill(MIN_CONTENT_LENGTH - 1)>>),
     StrResult(<<"Extracted the ", "p", "\n">> \o Fill(MIN_CONTENT_LENGTH - 1) \o <<"$">>)}

RemoteErrors ==
    {<<"ResourceExhausted", <<"429", " Resource has been exhausted (e.g. check quota).">>>>,
     <<"ResourceExhausted", <<"Quota exceeded">>>>,
     <<"Exception", <<"Connection reset">>>>}

\* what the generative endpoint may answer
CleanupOutcomes ==
    {Responded(<<"Cleaned", " ", "page">>),
     Responded(<<"Please ", "Provide The Actual Scraped Content">>)}
    \cup {Raised(e[1], e[2]) : e \in RemoteErrors}

TeamAnchor == Anchor(<<"/", "team">>, <<"About">>)

\* the pages requests.get may bring to find_linked_pages in main (V3)
NavSoup(nav) == [navs |-> <<nav>>, header |-> <<>>, footer |-> <<>>]

MainSoups ==
    {[navs |-> <<>>, header |-> <<>>, footer |-> <<>>],
     NavSoup(<<AboutAnchor, OtherHostAnchor, RelativeAnchor>>),
     NavSoup(<<SelfAnchor, AboutAnchor>>),
     NavSoup(<<AboutAnchor, TeamAnchor>>)}

MenuOutcome(kind, list, str) == [kind |-> kind, list |-> list, str |-> str]

\* what the menu agent may bring to find_navigation_menu_items (V2)
MenuOutcomes ==
    {MenuOutcome("list", <<[is_str |-> TRUE, value |-> <<"A">>]>>, <<>>),
     MenuOutcome("list", <<[is_str |-> FALSE,
                           value |-> <<<<"About">>, <<" ", "About">>, <<"Docs">>>>]>>, <<>>),
     MenuOutcome("str", <<>>, <<"About", "\n", " ", "Docs", "\n", "\n", "About">>),
     MenuOutcome("none", <<>>, <<>>),
     MenuOutcome("raise", <<>>, <<>>)}

---------------------------------------------------------------------------
(* SpecMenu: find_navigation_menu_items on every report of up to MaxItems
   item texts.  history.extracted_content() gives the texts as a list of
   strings ("strings"), as one list holding a list of strings ("lists"), as
   one newline-separated string ("text") or as something else ("other"), or
   the agent raises ("raise"). *)

ItemTexts == {<<"A", "b">>, <<" ", "A", "b">>, <<"C", " ">>, <<" ">>}

MenuShapes == {"strings", "lists", "text", "other", "raise"}

\* what the agent hands to find_navigation_menu_items
MenuOutcomeOf(shape, items) ==
    CASE shape = "strings" ->
            MenuOutcome("list", [k \in DOMAIN items |-> [is_str |-> TRUE, value |-> items[k]]],
                        <<>>)
      [] shape = "lists" ->
            MenuOutcome("list", <<[is_str |-> FALSE, value |-> items]>>, <<>>)
      [] shape = "text" -> MenuOutcome("str", <<>>, Join(items, "\n"))
      [] shape = "other" -> MenuOutcome("none", <<>>, <<>>)
      [] OTHER -> MenuOutcome("raise", <<>>, <<>>)

InitMenu ==
    /\ CtIdle
    /\ FlIdle
    /\ AppIdle
    /\ mn_pc = "start"
    /\ mn_items \in SeqsUpTo(ItemTexts, MaxItems)
    /\ mn_shape \in MenuShapes
    /\ mn_out = <<>>

FindNavigationMenuItems ==
    /\ mn_pc = "start"
    /\ mn_out' = find_navigation_menu_items(MenuOutcomeOf(mn_shape, mn_items))
    /\ mn_pc' = "done"
    /\ UNCHANGED <<mn_items, mn_shape, ctVars, flVars, appVars>>

NextMenu == FindNavigationMenuItems

SpecMenu == InitMenu /\ [][NextMenu]_vars

---------------------------------------------------------------------------
(* main: the handler of the "Extract Content" button and the tasks it
   awaits.  phase is "idle" before a click, "finding" while V2 awaits
   find_navigation_menu_items, "gather" while the handler awaits its tasks,
   "rendered" when it has shown its results and "crashed" when an exception
   left it. *)

Variants == {"V1", "V2", "V3"}

HomeLabel == <<"Home">>

\* url.startswith(('http://', 'https://'))
HasHttpScheme(u) == Len(u) >= 2 /\ u[1] \in {"http", "https"} /\ u[2] = "://"

\* if not url.startswith(...): url = f'https://{url}'
NormalizedUrl(u) == IF HasHttpScheme(u) THEN u ELSE <<"https", "://">> \o u

\* all_pages_info[label] = content
DictSet(info, label, content) ==
    IF \E j \in DOMAIN info : info[j].label = label
    THEN [j \in DOMAIN info |->
            IF info[j].label = label THEN [label |-> label, content |-> content]
            ELSE info[j]]
    ELSE Append(info, [label |-> label, content |-> content])

\* a variant that takes the results in the order in which the pipelines
\* returned
RECURSIVE StoreResultsAsFinished(_, _, _, _)
StoreResultsAsFinished(info, labels, results, i) ==
    IF i > Len(results) THEN info
    ELSE StoreResultsAsFinished(DictSet(info, labels[i], results[finished[i]].page_content),
                                labels, results, i + 1)

\* for i, (page_title, content) in enumerate(results):
\*     all_pages_info[page_texts[i]] = content
RECURSIVE StoreResults(_, _, _, _)
StoreResults(info, labels, results, i) ==
    IF i > Len(results) THEN info
    ELSE StoreResults(DictSet(info, labels[i], results[i].page_content), labels, results, i + 1)

\* the page selector shows the first key; its content is displayed
RenderedPages(info) ==
    IF info # <<>> THEN [kind |-> "pages", text |-> info[1].content]
    ELSE [kind |-> "error", text |-> <<"No content extracted from the page.">>]

\* V1: the content and the download button, or st.error(result)
RenderedResult(t) ==
    IF t.success THEN [kind |-> "content", text |-> t.content]
    ELSE [kind |-> "error", text |-> t.content]

CanClick == phase \in {"idle", "rendered", "crashed"}

\* tasks.append(process_page(page_url)) for every page of the batch
TasksFor(page_urls) == [k \in DOMAIN page_urls |-> NewTask(page_urls[k], FALSE, <<>>)]

\* V2: process_page(url) and process_page(url, menu_item) for every item
MenuTasksFor(u, menu_items) ==
    <<NewTask(u, FALSE, <<>>)>> \o [k \in DOMAIN menu_items |-> NewTask(u, TRUE, menu_items[k])]

UrlsOfLinks(linked_pages) == [k \in DOMAIN linked_pages |-> linked_pages[k].url]
TextsOfLinks(linked_pages) == [k \in DOMAIN linked_pages |-> linked_pages[k].text]

Init ==
    /\ CtIdle
    /\ FlIdle
    /\ MnIdle
    /\ variant \in Variants
    /\ phase = "idle"
    /\ url = <<>>
    /\ page_texts = <<>>
    /\ tasks = <<>>
    /\ all_pages_info = <<>>
    /\ ui = NoUi
    /\ previous_several = FALSE
    /\ finished = <<>>

\* the mapping holds several pages when the button is pressed
PagesLeft == Len(all_pages_info) > 1

\* the button is pressed with an empty URL field
ClickWithoutUrl ==
    /\ CanClick
    /\ phase' = "idle"
    /\ url' = <<>>
    /\ page_texts' = <<>>
    /\ tasks' = <<>>
    /\ all_pages_info' = <<>>
    /\ ui' = [kind |-> "warning", text |-> <<"Please enter a URL">>]
    /\ finished' = <<>>
    /\ previous_several' = PagesLeft
    /\ UNCHANGED <<variant, ctVars, flVars, mnVars>>

\* the batch of a click: its labels and its tasks, awaited together; the
\* results mapping starts empty
\* a variant whose mapping outlives the click
BeginBatchKeeping(u, labels, new_tasks) ==
    /\ phase' = "gather"
    /\ url' = u
    /\ page_texts' = labels
    /\ tasks' = new_tasks
    /\ all_pages_info' = all_pages_info
    /\ ui' = NoUi
    /\ finished' = <<>>
    /\ UNCHANGED <<variant, ctVars, flVars, mnVars>>

BeginBatch(u, labels, new_tasks) ==
    /\ phase' = "gather"
    /\ url' = u
    /\ page_texts' = labels
    /\ tasks' = new_tasks
    /\ all_pages_info' = <<>>
    /\ ui' = NoUi
    /\ finished' = <<>>
    /\ UNCHANGED <<variant, ctVars, flVars, mnVars>>

\* V1, and the single-page mode of V2 and V3: one pipeline on the URL
ClickSinglePage ==
    /\ CanClick
    /\ previous_several' = PagesLeft
    /\ \E entered \in EnteredUrls \ {<<>>} :
        BeginBatch(NormalizedUrl(entered),
                   IF variant = "V1" THEN <<>> ELSE <<HomeLabel>>,
                   TasksFor(<<NormalizedUrl(entered)>>))

\* what find_linked_pages may return for a URL: requests.get raised (no
\* links), or it brought a page of MainSoups, searched under a cap the
\* number input allows
LinkedPagesFor(u) ==
    {<<>>} \cup {find_linked_pages(soup, u, max_pages) :
                    soup \in MainSoups, max_pages \in 1..MaxCap}

\* V3 with "Explore Linked Pages": find_linked_pages, then one pipeline for
\* the URL and one for every linked page
ClickExplore ==
    /\ CanClick
    /\ variant = "V3"
    /\ previous_several' = PagesLeft
    /\ \E entered \in EnteredUrls \ {<<>>} :
        \E linked_pages \in LinkedPagesFor(NormalizedUrl(entered)) :
            BeginBatch(NormalizedUrl(entered),
                       <<HomeLabel>> \o TextsOfLinks(linked_pages),
                       TasksFor(<<NormalizedUrl(entered)>> \o UrlsOfLinks(linked_pages)))

\* V2 with "Navigation Menu Items": the handler awaits the menu agent
ClickMenuItems ==
    /\ CanClick
    /\ variant = "V2"
    /\ \E entered \in EnteredUrls \ {<<>>} :
        /\ phase' = "finding"
        /\ url' = NormalizedUrl(entered)
    /\ page_texts' = <<>>
    /\ tasks' = <<>>
    /\ all_pages_info' = <<>>
    /\ ui' = NoUi
    /\ finished' = <<>>
    /\ previous_several' = PagesLeft
    /\ UNCHANGED <<variant, ctVars, flVars, mnVars>>

\* find_navigation_menu_items returns: one pipeline for the URL and one for
\* every menu item
MenuItemsFound ==
    /\ phase = "finding"
    /\ UNCHANGED previous_several
    /\ \E outcome \in MenuOutcomes :
        LET menu_items == find_navigation_menu_items(outcome)
        IN  BeginBatch(url, <<HomeLabel>> \o menu_items, MenuTasksFor(url, menu_items))

\* ChatGoogleGenerativeAI(...) raises in find_navigation_menu_items, outside
\* its try: the exception leaves main
MenuLookupRaises ==
    /\ phase = "finding"
    /\ phase' = "crashed"
    /\ ui' = [kind |-> "exception", text |-> <<"ChatGoogleGenerativeAI">>]
    /\ UNCHANGED <<variant, url, page_texts, tasks, all_pages_info, previous_several, finished,
                   ctVars, flVars, mnVars>>

Running(i) == phase = "gather" /\ i \in DOMAIN tasks

\* a variant that writes a page's entry as soon as its pipeline returns
StepTaskStoring(i, t) ==
    /\ tasks' = [tasks EXCEPT ![i] = t]
    /\ all_pages_info' =
        IF variant # "V1" /\ t.pc = "done"
        THEN DictSet(all_pages_info, page_texts[i], t.page_content)
        ELSE all_pages_info
    /\ finished' = IF t.pc = "done" THEN Append(finished, i) ELSE finished
    /\ UNCHANGED <<variant, phase, url, page_texts, ui, previous_several, ctVars, flVars, mnVars>>

StepTask(i, t) ==
    /\ tasks' = [tasks EXCEPT ![i] = t]
    /\ finished' = IF t.pc = "done" THEN Append(finished, i) ELSE finished
    /\ UNCHANGED <<variant, phase, url, page_texts, all_pages_info, ui, previous_several,
                   ctVars, flVars, mnVars>>

\* the task starts and runs to its first await: the HTTP request (V1), or
\* the LLM client, the Agent and agent.run (V2, V3)
StartTask(i) ==
    /\ Running(i)
    /\ tasks[i].pc = "created"
    /\ StepTask(i, Started(variant, tasks[i]))

\* ChatGoogleGenerativeAI(...) raises, before the try of
\* extract_content_with_agent: the exception leaves the task
StartTaskRaises(i) ==
    /\ Running(i)
    /\ variant # "V1"
    /\ tasks[i].pc = "created"
    /\ StepTask(i, Logged([tasks[i] EXCEPT !.pc = "raised"], <<"llm">>))

FetchRaises(i) ==
    /\ Running(i)
    /\ tasks[i].pc = "fetch"
    /\ \E e \in FetchErrors : StepTask(i, FetchRaised(variant, tasks[i], e[1], e[2]))

FetchReturns(i) ==
    /\ Running(i)
    /\ tasks[i].pc = "fetch"
    /\ \E response \in Responses :
        StepTask(i, FetchReturned(variant, tasks[i], response))

AgentRaises(i) ==
    /\ Running(i)
    /\ tasks[i].pc = "agent"
    /\ \E e \in RemoteErrors : StepTask(i, AgentRaised(variant, tasks[i], e[1], e[2]))

AgentReturns(i) ==
    /\ Running(i)
    /\ tasks[i].pc = "agent"
    /\ \E result \in AgentResults : StepTask(i, AgentReturned(variant, tasks[i], result))

CleanupReturns(i) ==
    /\ Running(i)
    /\ tasks[i].pc = "cleanup"
    /\ \E outcome \in CleanupOutcomes :
        StepTask(i, CleanupReturned(variant, tasks[i], outcome))

\* every task has returned: the handler stores and shows the results
GatherReturns ==
    /\ phase = "gather"
    /\ \A i \in DOMAIN tasks : tasks[i].pc = "done"
    /\ phase' = "rendered"
    /\ all_pages_info' =
        IF variant = "V1" THEN <<>> ELSE StoreResults(all_pages_info, page_texts, tasks, 1)
    /\ ui' = IF variant = "V1" THEN RenderedResult(tasks[1])
             ELSE RenderedPages(all_pages_info')
    /\ UNCHANGED <<variant, url, page_texts, tasks, previous_several, finished,
                   ctVars, flVars, mnVars>>

\* a task raised: asyncio.gather passes the exception on, it leaves main,
\* and asyncio.run cancels the tasks that have not finished
GatherRaises ==
    /\ phase = "gather"
    /\ \E i \in DOMAIN tasks : tasks[i].pc = "raised"
    /\ phase' = "crashed"
    /\ tasks' = [i \in DOMAIN tasks |->
                    IF tasks[i].pc \in {"done", "raised"} THEN tasks[i]
                    ELSE [tasks[i] EXCEPT !.pc = "cancelled"]]
    /\ ui' = [kind |-> "exception", text |-> <<"ChatGoogleGenerativeAI">>]
    /\ UNCHANGED <<variant, url, page_texts, all_pages_info, previous_several, finished,
                   ctVars, flVars, mnVars>>

Next ==
    \/ ClickWithoutUrl
    \/ ClickSinglePage
    \/ ClickExplore
    \/ ClickMenuItems
    \/ MenuItemsFound
    \/ MenuLookupRaises
    \/ \E i \in DOMAIN tasks :
        \/ StartTask(i)
        \/ StartTaskRaises(i)
        \/ FetchRaises(i)
        \/ FetchReturns(i)
        \/ AgentRaises(i)
        \/ AgentReturns(i)
        \/ CleanupReturns(i)
    \/ GatherReturns
    \/ GatherRaises

Spec == Init /\ [][Next]_vars

---------------------------------------------------------------------------
(* Claims on clean_text *)

(* C1: clean_text is idempotent: clean_text(clean_text(t)) = clean_text(t)
   for every raw text t. *)
C1_Idempotent == ct_pc = "twice" => ct_twice = ct_once

---------------------------------------------------------------------------
(* Link discovery: what the claims speak of *)

\* the resolved URLs of the candidates that are on the base URL's host
EligibleUrls ==
    {u \in {urljoin(fl_url, fl_nav_links[j].href) : j \in DOMAIN fl_nav_links} :
        UrlNetloc(u) = UrlNetloc(fl_url)}

\* the (href, stripped text) pairs of the anchors with an href inside the
\* elements of a sequence, read off the page itself
HrefAnchorsIn(elements) ==
    UNION {{[href |-> elements[e][k].href, text |-> Strip(elements[e][k].text)] :
                k \in {n \in DOMAIN elements[e] : elements[e][n].has_href}} :
           e \in DOMAIN elements}

Candidates == {fl_nav_links[j] : j \in DOMAIN fl_nav_links}

(* C4: find_linked_pages returns at most max_pages links, for every cap
   max_pages >= 0. *)
C4_AtMostCap == fl_pc = "done" => Len(fl_out) <= fl_max_pages

(* C4 as amended: for every cap max_pages >= 1 find_linked_pages returns at
   most max_pages links; with max_pages = 0 it returns at most one. *)
C4_AtMostCapFromOne ==
    fl_pc = "done" =>
        Len(fl_out) <= (IF fl_max_pages >= 1 THEN fl_max_pages ELSE 1)

\* the cap cut the result short: more eligible links than max_pages
C4_Witness ==
    /\ fl_pc = "done"
    /\ fl_max_pages >= 1
    /\ Cardinality(EligibleUrls) > fl_max_pages
    /\ Len(fl_out) = fl_max_pages

(* C5: every returned link is the resolution of a candidate href against the
   base URL and its host equals the base URL's host. *)
C5_SameHost ==
    fl_pc = "done" =>
        \A i \in DOMAIN fl_out :
            /\ UrlNetloc(fl_out[i].url) = UrlNetloc(fl_url)
            /\ \E j \in DOMAIN fl_nav_links :
                    fl_out[i].url = urljoin(fl_url, fl_nav_links[j].href)

\* an absolute and a scheme-relative link to another host were candidates,
\* and a relative link was returned
C5_Witness ==
    /\ fl_pc = "done"
    /\ \E j, k, l \in DOMAIN fl_nav_links :
        /\ fl_nav_links[j].href = OtherHostAnchor.href
        /\ fl_nav_links[k].href = SchemeRelativeAnchor.href
        /\ fl_nav_links[l].href = RelativeAnchor.href
        /\ urljoin(fl_url, fl_nav_links[l].href) \in UrlsOf(fl_out)

(* C6: no two entries of the returned sequence have the same resolved URL. *)
C6_NoDuplicateUrls ==
    fl_pc = "done" =>
        \A i, j \in DOMAIN fl_out : i # j => fl_out[i].url # fl_out[j].url

\* two nav elements held the same page under different hrefs and labels,
\* and it was returned
C6_Witness ==
    /\ fl_pc = "done"
    /\ Len(fl_soup.navs) = 2
    /\ \E j, k \in DOMAIN fl_nav_links :
        /\ j # k
        /\ fl_nav_links[j].href # fl_nav_links[k].href
        /\ fl_nav_links[j].text # fl_nav_links[k].text
        /\ urljoin(fl_url, fl_nav_links[j].href) = urljoin(fl_url, fl_nav_links[k].href)
        /\ urljoin(fl_url, fl_nav_links[j].href) \in UrlsOf(fl_out)

(* C9: anchors of <header> and <footer> are collected only when the page has
   no <nav> element; with at least one <nav> element only anchors inside
   <nav> elements are candidates. *)
C9_FallbackOnlyWithoutNav ==
    fl_pc = "done" =>
        (fl_soup.navs # <<>> => Candidates \subseteq HrefAnchorsIn(fl_soup.navs))

(* C9 as amended: anchors of the first <header> and <footer> are collected
   only when no anchor with an href was found inside a <nav> element (the
   page has no <nav>, or its <nav> elements hold no such anchor); whenever a
   <nav> element holds an anchor with an href, the candidates are exactly
   the anchors inside <nav> elements. *)
C9_FallbackWhenNavsGiveNothing ==
    fl_pc = "done" =>
        IF HrefAnchorsIn(fl_soup.navs) # {}
        THEN Candidates = HrefAnchorsIn(fl_soup.navs)
        ELSE Candidates = HrefAnchorsIn(FindFirst(fl_soup.header))
                            \cup HrefAnchorsIn(FindFirst(fl_soup.footer))

\* a <nav> with links beside a <header> with another link: only the nav's
\* links are candidates
C9_Witness ==
    /\ fl_pc = "done"
    /\ HrefAnchorsIn(fl_soup.navs) # {}
    /\ HrefAnchorsIn(fl_soup.header) \ HrefAnchorsIn(fl_soup.navs) # {}
    /\ Candidates = HrefAnchorsIn(fl_soup.navs)

---------------------------------------------------------------------------
(* Claims on the page pipelines and the batch *)

Took(t, step) == \E k \in DOMAIN t.log : t.log[k] = step

IsPrefix(a, b) == Len(a) <= Len(b) /\ a = SubSeq(b, 1, Len(a))

(* C2: in every variant, a stripped text shorter than MIN_CONTENT_LENGTH
   makes the pipeline return the failure "Error: Insufficient content
   extracted" without a call of clean_with_genai; a stripped text of length
   MIN_CONTENT_LENGTH or more is what the cleanup step is called with. *)
C2_ShortTextNeverCleaned ==
    \A i \in DOMAIN tasks :
        LET t == tasks[i]
        IN  Took(t, "length_check") =>
                IF Len(t.checked) < MIN_CONTENT_LENGTH
                THEN /\ t.pc = "done"
                     /\ ~t.success
                     /\ t.content = <<"Error: ", "Insufficient content extracted">>
                     /\ ~Took(t, "clean_with_genai")
                     /\ t.cleanup.kind = "none"
                ELSE /\ t.cleanup_arg = t.checked
                     /\ t.pc = "done" => Took(t, "clean_with_genai") /\ t.cleanup.kind # "none"

\* in one batch a page stripped to one character less than the minimum was
\* rejected and a page of exactly the minimum length was cleaned
C2_Witness ==
    \E i, j \in DOMAIN tasks :
        /\ tasks[i].pc = "done" /\ tasks[j].pc = "done"
        /\ Len(tasks[i].fetched) >= MIN_CONTENT_LENGTH
        /\ Len(tasks[i].checked) = MIN_CONTENT_LENGTH - 1
        /\ ~tasks[i].success
        /\ Len(tasks[j].checked) = MIN_CONTENT_LENGTH
        /\ Took(tasks[j], "clean_with_genai")

\* the entry of page i in the results mapping
Stored(i) ==
    \E k \in DOMAIN all_pages_info :
        /\ all_pages_info[k].label = page_texts[i]
        /\ all_pages_info[k].content = tasks[i].page_content

(* C3: a multi-page batch of V3 completes without raising whichever of its
   pages fail, and then holds, for every page, the page's cleaned content or
   its error string under the page's label. *)
C3_BatchSurvivesFailures ==
    (variant = "V3" /\ Len(tasks) > 1) =>
        /\ phase # "crashed"
        /\ phase = "rendered" => \A i \in DOMAIN tasks : Stored(i)

\* what extract_content returns for a failed fetch
FetchFailureReturned(t) ==
    /\ t.pc = "done"
    /\ ~t.success
    /\ t.content = <<"Error fetching the webpage: ">> \o t.caught.msg
    /\ t.log = <<"fetch">>
    /\ t.cleanup.kind = "none"
    /\ phase = "rendered" => ui = [kind |-> "error", text |-> t.content]

ConnectionFailed(t) == t.caught.exc \in {"ConnectionError", "Timeout"}

Answered(t) == t.status_code # 0

(* C7: when the fetch of extract_content ends in a connection error, a
   timeout or a response whose status is not 2xx, extract_content returns the
   failure "Error fetching the webpage: <error>" and has neither parsed,
   stripped nor called the cleanup step. *)
C7_NonSuccessStatusTagged ==
    \A i \in DOMAIN tasks :
        LET t == tasks[i]
        IN  (/\ variant = "V1"
             /\ ConnectionFailed(t) \/ (Answered(t) /\ t.status_code \notin 200..299)) =>
                FetchFailureReturned(t)

(* C7 as amended: when the fetch of extract_content ends in a connection
   error, a timeout or a response with a 4xx or 5xx status, extract_content
   returns the failure "Error fetching the webpage: <error>" and has neither
   parsed, stripped nor called the cleanup step; a response with any other
   status is parsed. *)
C7_FetchFailureTagged ==
    \A i \in DOMAIN tasks :
        LET t == tasks[i]
        IN  variant = "V1" =>
                /\ (ConnectionFailed(t) \/ (Answered(t) /\ t.status_code \in 400..599)) =>
                        FetchFailureReturned(t) /\ t.caught.kind = "raise"
                /\ (Answered(t) /\ t.status_code \notin 400..599) => Took(t, "parse")

\* a 404 was answered and the failure shown
C7_Witness ==
    /\ variant = "V1"
    /\ phase = "rendered"
    /\ \E i \in DOMAIN tasks :
        /\ tasks[i].status_code = 404
        /\ tasks[i].caught.exc = "HTTPError"
        /\ ui.kind = "error"

(* C8: in every variant the steps are fetch, clean_text, length check,
   cleanup, in that order: the length check is applied to clean_text's
   output and the cleanup step is called only on clean_text's output. *)
C8_CleanTextBeforeCleanup ==
    \A i \in DOMAIN tasks :
        LET t == tasks[i]
        IN  /\ Took(t, "length_check") =>
                Took(t, "clean_text") /\ t.checked = clean_text(t.fetched)
            /\ Took(t, "clean_with_genai") =>
                Took(t, "length_check") /\ t.cleanup_arg = clean_text(t.fetched)

V1Steps == <<"fetch", "parse", "clean_text", "length_check", "clean_with_genai">>

AgentSteps == <<"agent", "initial_clean", "length_check", "clean_with_genai">>

(* C8 as amended: in V1 the steps are fetch, clean_text, length check,
   cleanup, in that order, the check and the cleanup taking clean_text's
   output; in V2 and V3 clean_text is never called: the steps are the agent
   run, the inline filter of agent trace lines (with strip), length check,
   cleanup, in that order, the check and the cleanup taking the filter's
   output. *)
C8_StripperBeforeCleanup ==
    \A i \in DOMAIN tasks :
        LET t == tasks[i]
        IN  /\ variant = "V1" => IsPrefix(t.log, V1Steps)
            /\ variant # "V1" => IsPrefix(t.log, AgentSteps) \/ t.log = <<"llm">>
            /\ Took(t, "length_check") =>
                t.checked = IF variant = "V1" THEN clean_text(t.fetched)
                            ELSE initial_clean(t.fetched)
            /\ Took(t, "clean_with_genai") =>
                t.cleanup_arg = t.checked /\ Len(t.checked) >= MIN_CONTENT_LENGTH

\* a V3 page whose trace line was filtered out and whose "$" was kept went
\* through all four steps
C8_Witness ==
    /\ variant = "V3"
    /\ \E i \in DOMAIN tasks :
        /\ tasks[i].log = AgentSteps
        /\ tasks[i].cleanup_arg # clean_text(tasks[i].fetched)
    /\ \E i \in DOMAIN tasks :
        /\ Took(tasks[i], "length_check")
        /\ tasks[i].checked # tasks[i].fetched

NamesContentNeed(text) ==
    \E k \in DOMAIN text :
        text[k] \in {"provide the actual scraped content", "Provide The Actual Scraped Content"}

RateLimitMessage(msg) ==
    \E k \in DOMAIN msg : msg[k] \in {"429", "Resource has been exhausted"}

\* what the claim says of a failed call
FailureTagged(t) ==
    t.cleanup.kind = "raise" =>
        IF variant = "V3" /\ t.cleanup.exc = "ResourceExhausted" /\ RateLimitMessage(t.cleanup.msg)
        THEN t.content = <<"CLEANING ERROR: ", "API rate limit - please try again later.">>
        ELSE t.content = <<"CLEANING ERROR: ">> \o t.cleanup.msg

(* C10: clean_with_genai never raises: it returns the response text
   unchanged, or on a failure a string tagged "CLEANING ERROR: ", which in V3
   for a rate-limit failure is "CLEANING ERROR: API rate limit - please try
   again later." *)
C10_ResponseOrTaggedError ==
    \A i \in DOMAIN tasks :
        LET t == tasks[i]
        IN  Took(t, "clean_with_genai") =>
                /\ t.pc = "done"
                /\ t.cleanup.kind = "ok" => t.content = t.cleanup.text
                /\ FailureTagged(t)

(* C10 as amended: clean_with_genai never raises: it returns the response
   text unchanged, or the fixed string "CONTENT EXTRACTION ERROR: Failed to
   retrieve meaningful page content" when the response text, lowercased,
   contains "provide the actual scraped content", or on a failure a string
   tagged "CLEANING ERROR: ", which in V3 for a rate-limit failure is
   "CLEANING ERROR: API rate limit - please try again later." *)
C10_ResponseOrFixedOrTaggedError ==
    \A i \in DOMAIN tasks :
        LET t == tasks[i]
        IN  Took(t, "clean_with_genai") =>
                /\ t.pc = "done"
                /\ t.cleanup.kind \in {"ok", "raise"}
                /\ (t.cleanup.kind = "ok" /\ ~NamesContentNeed(t.cleanup.text)) =>
                        t.content = t.cleanup.text
                /\ (t.cleanup.kind = "ok" /\ NamesContentNeed(t.cleanup.text)) =>
                        t.content = <<"CONTENT EXTRACTION ERROR: ",
                                      "Failed to retrieve meaningful page content">>
                /\ FailureTagged(t)

\* in one V3 batch a cleanup call hit the rate limit and another failed
\* otherwise
C10_Witness ==
    /\ variant = "V3"
    /\ \E i, j \in DOMAIN tasks :
        /\ tasks[i].cleanup.kind = "raise"
        /\ tasks[i].content = <<"CLEANING ERROR: ", "API rate limit - please try again later.">>
        /\ tasks[j].cleanup.kind = "raise"
        /\ tasks[j].cleanup.exc = "ResourceExhausted"
        /\ tasks[j].content = <<"CLEANING ERROR: ", "Quota exceeded">>

---------------------------------------------------------------------------
(* Claims on retries, the barrier and the results mapping *)

\* the calls of clean_with_genai made for a page: the returned ones and the
\* one still awaited
CleanupCalls(t) == Times(t, "clean_with_genai") + (IF t.pc = "cleanup" THEN 1 ELSE 0)

(* C11: within one click every page of the batch has its fetch or agent run
   started at most once and its cleanup call made at most once, whatever the
   outcome; a page that ended in a rate-limit error was not run again. *)
C11_NoAutomaticRetry ==
    \A i \in DOMAIN tasks :
        LET t == tasks[i]
        IN  /\ Times(t, "fetch") + Times(t, "agent") <= 1
            /\ CleanupCalls(t) <= 1
            /\ (Took(t, "fetch") \/ Took(t, "agent")) => t.log[1] \in {"fetch", "agent"}
            /\ t.caught.kind = "raise" => t.pc = "done" /\ ~t.success

\* a V3 batch was shown in which the agent run of one page and the cleanup
\* call of another hit the rate limit, each made once
C11_Witness ==
    /\ variant = "V3"
    /\ phase = "rendered"
    /\ \E i, j \in DOMAIN tasks :
        /\ tasks[i].content = <<"Error: ", "API rate limit - please try again later.">>
        /\ Times(tasks[i], "agent") = 1
        /\ tasks[j].content = <<"CLEANING ERROR: ", "API rate limit - please try again later.">>
        /\ Times(tasks[j], "agent") = 1
        /\ Times(tasks[j], "clean_with_genai") = 1

(* C12: within one click the results mapping stays empty and nothing is
   shown from it until every pipeline of the batch has returned: no entry is
   written while a pipeline of the batch is still running, and none when the
   batch was abandoned. *)
C12_NothingBeforeAllComplete ==
    /\ phase \in {"finding", "gather", "crashed"} =>
            all_pages_info = <<>> /\ ui.kind \notin {"pages", "content"}
    /\ all_pages_info # <<>> =>
            phase = "rendered" /\ \A i \in DOMAIN tasks : tasks[i].pc = "done"

\* a page of a batch has returned its cleaned text while a sibling is still
\* running, and the mapping is empty
C12_Witness ==
    /\ phase = "gather"
    /\ all_pages_info = <<>>
    /\ \E i, j \in DOMAIN tasks :
        /\ tasks[i].pc = "done" /\ tasks[i].success
        /\ tasks[j].pc \in {"agent", "cleanup"}

\* entry k of the mapping was produced by a page of the batch of this click
FromThisRequest(k) ==
    \E i \in DOMAIN tasks :
        /\ i \in DOMAIN page_texts
        /\ page_texts[i] = all_pages_info[k].label
        /\ tasks[i].page_content = all_pages_info[k].content

(* C13: the results mapping is created empty at every extraction request:
   whatever requests came before, the mapping that is shown holds only
   entries produced by the pages of the most recent request. *)
C13_OnlyLatestRequest ==
    /\ \A k \in DOMAIN all_pages_info : FromThisRequest(k)
    /\ phase # "rendered" => all_pages_info = <<>>
    /\ (phase = "rendered" /\ variant # "V1") =>
            /\ all_pages_info = StoreResults(<<>>, page_texts, tasks, 1)
            /\ ui = [kind |-> "pages", text |-> all_pages_info[1].content]

\* the previous request left several entries; this one, a single page,
\* shows one
C13_Witness ==
    /\ previous_several
    /\ phase = "rendered"
    /\ Len(all_pages_info) = 1
    /\ Len(tasks) = 1

---------------------------------------------------------------------------
(* Claims on clean_text, the selectors and the menu items *)

(* C14: clean_text("Hello,   World!!\n\n\nAds here$$$") is exactly
   "Hello, World!! Ads here": the whitespace runs, newlines included, became
   one space each, the "$" were removed and the result is trimmed. *)
C14_GreetingExample ==
    (ct_pc \in {"once", "twice"} /\ ct_text = GreetingText) =>
        ct_once =
            <<"H", "e", "l", "l", "o", ",", " ", "W", "o", "r", "l", "d", "!", "!",
              " ", "A", "d", "s", " ", "h", "e", "r", "e">>

\* clean_text has been applied to the example text
C14_Witness == ct_pc = "once" /\ ct_text = GreetingText /\ Len(ct_once) < Len(ct_text)

\* the priority order the claim names
SelectorPriority ==
    <<"main", "article", ".content", "#content", ".post-content", ".entry-content", "body">>

\* the ranks of the selectors that match an element of the document
Matching(d) ==
    {k \in DOMAIN SelectorPriority : \E j \in DOMAIN d : d[j].selector = SelectorPriority[k]}

\* the text of the first element the selector matches
TextUnder(d, selector) ==
    LET j == CHOOSE j \in DOMAIN d :
                /\ d[j].selector = selector
                /\ \A m \in 1..(j - 1) : d[m].selector # selector
    IN  d[j].text

(* C15: in the direct-fetch variant the text is taken from the element of
   the first selector, in the order main, article, .content, #content,
   .post-content, .entry-content, body, that matches; when that element's
   text is empty the text of body is taken. *)
C15_SelectorPriority ==
    \A i \in DOMAIN tasks :
        LET t == tasks[i]
            best == CHOOSE k \in Matching(t.doc) : \A m \in Matching(t.doc) : k <= m
            chosen == TextUnder(t.doc, SelectorPriority[best])
        IN  (variant = "V1" /\ Took(t, "clean_text")) =>
                /\ Matching(t.doc) # {}
                /\ t.fetched = IF chosen # <<>> THEN chosen ELSE TextUnder(t.doc, "body")
                /\ t.checked = clean_text(t.fetched)

\* a document whose first element matches .entry-content and whose second
\* matches article: the article's text was taken
C15_Witness ==
    /\ variant = "V1"
    /\ \E i \in DOMAIN tasks :
        /\ Took(tasks[i], "clean_text")
        /\ Len(tasks[i].doc) > 2
        /\ tasks[i].doc[1].selector = ".entry-content"
        /\ tasks[i].doc[2].selector = "article"
        /\ tasks[i].fetched = tasks[i].doc[2].text
        /\ tasks[i].fetched # tasks[i].doc[1].text

\* the item texts the agent reported, each without its surrounding
\* whitespace; a newline-separated string has no empty items
ReportedItems ==
    LET stripped == StripEach(mn_items)
    IN  IF mn_shape = "text" THEN SelectSeq(stripped, LAMBDA item : item # <<>>)
        ELSE stripped

\* position of the first occurrence of x in seq
FirstIndex(seq, x) == CHOOSE k \in DOMAIN seq : seq[k] = x /\ \A m \in 1..(k - 1) : seq[m] # x

\* out holds the elements of seq once each, in the order of their first
\* occurrence
DedupOf(out, seq) ==
    /\ {out[k] : k \in DOMAIN out} = {seq[k] : k \in DOMAIN seq}
    /\ \A a, b \in DOMAIN out :
            a < b => out[a] # out[b] /\ FirstIndex(seq, out[a]) < FirstIndex(seq, out[b])

(* C16: find_navigation_menu_items returns the item texts the agent
   reported, each stripped, without duplicates and in the order of first
   occurrence, when the agent's content is a list of strings and when it is
   one newline-separated string; when the agent fails it returns the empty
   list. *)
C16_StrippedUniqueItems ==
    mn_pc = "done" =>
        /\ mn_shape \in {"strings", "text"} => DedupOf(mn_out, ReportedItems)
        /\ mn_shape = "raise" => mn_out = <<>>

---------------------------------------------------------------------------
(* Claims on the stored results *)

\* the last position of the batch that bears the label
LastPosition(label) ==
    CHOOSE i \in DOMAIN page_texts :
        /\ page_texts[i] = label
        /\ \A j \in DOMAIN page_texts : page_texts[j] = label => j <= i

(* C17: results are matched to labels by task position, never by the order
   in which the pipelines return: in every completion order the entry under
   a label is the result of the pipeline at the position that bears the
   label (the entered URL first under "Home", then the links in discovery
   order). *)
C17_MatchedByPosition ==
    (phase = "rendered" /\ variant # "V1") =>
        /\ {all_pages_info[k].label : k \in DOMAIN all_pages_info}
                = {page_texts[i] : i \in DOMAIN page_texts}
        /\ \A k \in DOMAIN all_pages_info :
                all_pages_info[k].content
                    = tasks[LastPosition(all_pages_info[k].label)].page_content
        /\ page_texts[1] = <<"Home">> /\ tasks[1].url = url

\* three pages with different labels and different results, the last
\* returned first and the first last: each label holds its own page's result
C17_Witness ==
    /\ phase = "rendered"
    /\ finished = <<3, 2, 1>>
    /\ \A i, j \in DOMAIN tasks : i # j =>
            /\ page_texts[i] # page_texts[j]
            /\ tasks[i].page_content # tasks[j].page_content
    /\ \A i \in DOMAIN tasks : Stored(i)

(* C18: after a multi-page batch the results mapping has exactly one entry
   per processed page, whatever the labels of the discovered links. *)
C18_OneEntryPerPage ==
    (phase = "rendered" /\ variant # "V1") => Len(all_pages_info) = Len(tasks)

(* C19: the URLs processed in one V3 batch are pairwise distinct: no
   discovered link resolves to the entered URL, which is processed once as
   "Home". *)
C19_DistinctBatchUrls ==
    variant = "V3" =>
        \A i, j \in DOMAIN tasks : i # j => tasks[i].url # tasks[j].url

\* the string is one of the error strings of the cleanup step
CleanupErrorString(text) ==
    text # <<>> /\ text[1] \in {"CLEANING ERROR: ", "CONTENT EXTRACTION ERROR: "}

\* the cleanup step of the page returned an error string
CleanupFailed(t) == Took(t, "clean_with_genai") /\ CleanupErrorString(t.content)

(* C20: a pipeline reports success only with cleaned page content: when the
   cleanup step returns a "CLEANING ERROR: ..." or "CONTENT EXTRACTION
   ERROR: ..." string the pipeline result is a failure and the page shows it
   as an error, not as extracted content. *)
C20_CleanupErrorIsFailure ==
    \A i \in DOMAIN tasks :
        CleanupFailed(tasks[i]) =>
            /\ ~tasks[i].success
            /\ (variant = "V1" /\ phase = "rendered") => ui.kind = "error"

(* C20 as amended: a pipeline reports success whenever the cleanup step
   returned, an error string included: the "CLEANING ERROR: ..." or "CONTENT
   EXTRACTION ERROR: ..." string is then the page's content, shown in place
   of the cleaned text; a failure is reported only when the fetch or agent
   run failed or the text was too short, and then without a cleanup call. *)
C20_CleanupErrorIsContent ==
    \A i \in DOMAIN tasks :
        LET t == tasks[i]
        IN  /\ t.pc = "done" => (t.success <=> Took(t, "clean_with_genai"))
            /\ CleanupFailed(t) =>
                    /\ t.success
                    /\ t.page_content = t.content
                    /\ (variant = "V1" /\ phase = "rendered") =>
                            ui = [kind |-> "content", text |-> t.content]
                    /\ (variant # "V1" /\ phase = "rendered" /\ Len(tasks) = 1) =>
                            ui = [kind |-> "pages", text |-> t.content]

\* the cleanup call of the direct-fetch variant failed and its error string
\* is shown as the extracted content
C20_Witness ==
    /\ variant = "V1"
    /\ phase = "rendered"
    /\ ui.kind = "content"
    /\ ui.text # <<>> /\ ui.text[1] = "CLEANING ERROR: "
    /\ tasks[1].cleanup.kind = "raise"

=============================================================================
